---- MODULE Spec2Model ----
(***************************************************************************)
(* A model of the point quadtree of src/quadtree.go: the node arena, the   *)
(* mutations Insert, Remove, Update (with RInsert and divide) and the      *)
(* queries Search and KNearest.                                            *)
(*                                                                         *)
(* Pointers are handles.  A *QuadTree is the path of child indices that    *)
(* leads to the node from the root (the root is <<>>), a *Point is a       *)
(* number in Ids, and nil is Nil.  The heap of QuadTree structs is the     *)
(* variable tree (handle -> struct) and the heap of Point structs is the   *)
(* variable pts.  Coordinates are integers: the root's half-extent is a    *)
(* power of two large enough that every halving done by divide is exact,   *)
(* as it is in float64.                                                    *)
(***************************************************************************)
EXTENDS Integers, Sequences, FiniteSets, TLC

VARIABLES tree, pts, last

vars == <<tree, pts, last>>

(***************************************************************************)
(* Tunables and bounds.                                                    *)
(***************************************************************************)
\* var Capacity (the model runs the tree with a small leaf capacity)
Capacity == 2

\* var MaxDepth (the model runs the tree with a small depth ceiling)
MaxDepth == 2

\* number of Point objects the caller works with
NumPoints == 3

Ids == 1 .. NumPoints

\* the nil pointer, for *QuadTree and for a nil filter
Nil == <<-1>>

RECURSIVE Pow2(_)
Pow2(n) == IF n = 0 THEN 1 ELSE 2 * Pow2(n - 1)

\* half-extent of the root box: MaxDepth halvings stay integral
RootHalf == Pow2(MaxDepth)

(***************************************************************************)
(* Geometry.                                                               *)
(***************************************************************************)
NewPoint(x, y, data) == [x |-> x, y |-> y, data |-> data]

NewAABB(center, half) == [center |-> center, half |-> half]

\* ContainsPoint with the box taken as open: a point on its edge is outside
ContainsPointOpen(a, p) ==
    IF p.x <= a.center.x - a.half.x THEN FALSE
    ELSE IF p.y <= a.center.y - a.half.y THEN FALSE
    ELSE IF p.x >= a.center.x + a.half.x THEN FALSE
    ELSE IF p.y >= a.center.y + a.half.y THEN FALSE
    ELSE TRUE

ContainsPoint(a, p) ==
    IF p.x < a.center.x - a.half.x THEN FALSE
    ELSE IF p.y < a.center.y - a.half.y THEN FALSE
    ELSE IF p.x > a.center.x + a.half.x THEN FALSE
    ELSE IF p.y > a.center.y + a.half.y THEN FALSE
    ELSE TRUE

\* Intersect with the boxes taken as open: boxes that only touch are apart
IntersectOpen(a, b) ==
    IF b.center.x + b.half.x <= a.center.x - a.half.x THEN FALSE
    ELSE IF b.center.y + b.half.y <= a.center.y - a.half.y THEN FALSE
    ELSE IF b.center.x - b.half.x >= a.center.x + a.half.x THEN FALSE
    ELSE IF b.center.y - b.half.y >= a.center.y + a.half.y THEN FALSE
    ELSE TRUE

\* Intersect that compares the boxes along x only
IntersectX(a, b) ==
    IF b.center.x + b.half.x < a.center.x - a.half.x THEN FALSE
    ELSE IF b.center.x - b.half.x > a.center.x + a.half.x THEN FALSE
    ELSE TRUE

Intersect(a, b) ==
    IF b.center.x + b.half.x < a.center.x - a.half.x THEN FALSE
    ELSE IF b.center.y + b.half.y < a.center.y - a.half.y THEN FALSE
    ELSE IF b.center.x - b.half.x > a.center.x + a.half.x THEN FALSE
    ELSE IF b.center.y - b.half.y > a.center.y + a.half.y THEN FALSE
    ELSE TRUE

\* The radicand of distance(): math.Sqrt is increasing, and injective on the
\* small integers met here, so comparing radicands is comparing distances.
distance(a, b) ==
    LET dx == a.x - b.x
        dy == a.y - b.y
    IN  dx * dx + dy * dy

(***************************************************************************)
(* Nodes.                                                                  *)
(***************************************************************************)
New(boundary, depth, parent) ==
    [boundary |-> boundary, depth |-> depth, points |-> <<>>,
     parent |-> parent, nodes |-> <<Nil, Nil, Nil, Nil>>]

\* Go's qt.nodes[0] == nil; the array is 1-based here
IsLeaf(t, qt) == t[qt].nodes[1] = Nil

\* x / 2 on float64; exact on the values the model meets
Half(x) == x \div 2

\* child boxes with the two southern boxes laid over the northern ones
ChildBoxNorth(b, i) ==
    LET sx == IF i \in {0, 2} THEN -1 ELSE 1
    IN  NewAABB(NewPoint(b.center.x + sx * Half(b.half.x),
                         b.center.y + Half(b.half.y), Nil),
                NewPoint(Half(b.half.x), Half(b.half.y), Nil))

\* the box of child i (0..3) of a node with box b: NW, NE, SW, SE
ChildBox(b, i) ==
    LET sx == IF i \in {0, 2} THEN -1 ELSE 1
        sy == IF i \in {0, 1} THEN 1 ELSE -1
    IN  NewAABB(NewPoint(b.center.x + sx * Half(b.half.x),
                         b.center.y + sy * Half(b.half.y), Nil),
                NewPoint(Half(b.half.x), Half(b.half.y), Nil))

\* depth given to the four children made by divide
ChildDepth(d) == d + 1

RECURSIVE Insert(_, _, _, _)
RECURSIVE InsertChildren(_, _, _, _)
RECURSIVE divide(_, _, _)
RECURSIVE Reinsert(_, _, _, _)

\* for _, node := range qt.nodes { if node.Insert(p) { return true } }; return false
InsertChildren(t, qt, p, P) ==
    LET n  == t[qt].nodes
        r1 == Insert(t, n[1], p, P)
        r2 == Insert(r1.t, n[2], p, P)
        r3 == Insert(r2.t, n[3], p, P)
        r4 == Insert(r3.t, n[4], p, P)
    IN  IF r1.ok THEN r1
        ELSE IF r2.ok THEN r2
        ELSE IF r3.ok THEN r3
        ELSE r4

\* divide's loop over qt.points, from index j on: each point goes to the
\* first child whose Insert accepts it (a point no child accepts is dropped)
Reinsert(t, qt, P, j) ==
    IF j > Len(t[qt].points) THEN t
    ELSE Reinsert(InsertChildren(t, qt, t[qt].points[j], P).t, qt, P, j + 1)

\* divide that leaves the list of the split node as it was
divideKeep(t, qt, P) ==
    IF t[qt].nodes[1] # Nil THEN t
    ELSE LET b    == t[qt].boundary
             kids == [i \in 1 .. 4 |-> Append(qt, i - 1)]
             made == [n \in DOMAIN t \cup {kids[i] : i \in 1 .. 4} |->
                        IF n \in DOMAIN t THEN t[n]
                        ELSE New(ChildBox(b, n[Len(n)]), ChildDepth(t[qt].depth), qt)]
             t1   == [made EXCEPT ![qt].nodes = kids]
         IN  Reinsert(t1, qt, P, 1)

divide(t, qt, P) ==
    IF t[qt].nodes[1] # Nil THEN t
    ELSE LET b    == t[qt].boundary
             kids == [i \in 1 .. 4 |-> Append(qt, i - 1)]
             made == [n \in DOMAIN t \cup {kids[i] : i \in 1 .. 4} |->
                        IF n \in DOMAIN t THEN t[n]
                        ELSE New(ChildBox(b, n[Len(n)]), ChildDepth(t[qt].depth), qt)]
             t1   == [made EXCEPT ![qt].nodes = kids]
             t2   == Reinsert(t1, qt, P, 1)
         IN  [t2 EXCEPT ![qt].points = <<>>]

\* Insert that also splits a full leaf at MaxDepth
InsertDeep(t, qt, p, P) ==
    IF ~ContainsPoint(t[qt].boundary, P[p]) THEN [ok |-> FALSE, t |-> t]
    ELSE IF t[qt].nodes[1] = Nil
         THEN IF Len(t[qt].points) < Capacity
              THEN [ok |-> TRUE, t |-> [t EXCEPT ![qt].points = Append(@, p)]]
              ELSE IF t[qt].depth <= MaxDepth
                   THEN InsertChildren(divide(t, qt, P), qt, p, P)
                   ELSE [ok |-> TRUE, t |-> [t EXCEPT ![qt].points = Append(@, p)]]
         ELSE InsertChildren(t, qt, p, P)

Insert(t, qt, p, P) ==
    IF ~ContainsPoint(t[qt].boundary, P[p]) THEN [ok |-> FALSE, t |-> t]
    ELSE IF t[qt].nodes[1] = Nil
         THEN IF Len(t[qt].points) < Capacity
              THEN [ok |-> TRUE, t |-> [t EXCEPT ![qt].points = Append(@, p)]]
              ELSE IF t[qt].depth < MaxDepth
                   THEN InsertChildren(divide(t, qt, P), qt, p, P)
                   ELSE [ok |-> TRUE, t |-> [t EXCEPT ![qt].points = Append(@, p)]]
         ELSE InsertChildren(t, qt, p, P)

\* index of the first element of s, from j on, that is p; 0 when there is none
RECURSIVE IndexOf(_, _, _)
IndexOf(s, p, j) ==
    IF j > Len(s) THEN 0
    ELSE IF s[j] = p THEN j
    ELSE IndexOf(s, p, j + 1)

\* the slice loses its last element and slot i is left as it was
DropLast(s, i) == SubSeq(s, 1, Len(s) - 1)

\* the removal shared by Remove and Update: the last element takes slot i
\* and the slice loses its last element
SwapRemove(s, i) ==
    LET n == Len(s)
    IN  IF i = n THEN SubSeq(s, 1, n - 1)
        ELSE SubSeq([s EXCEPT ![i] = s[n]], 1, n - 1)

RECURSIVE Remove(_, _, _, _)
RECURSIVE RemoveChildren(_, _, _, _)
RECURSIVE RemoveFirstChild(_, _, _, _)

\* Remove that asks only the first child whose box contains the point, as
\* if a point could lie in one quadrant only
RemoveFirstChild(t, qt, p, P) ==
    LET n == t[qt].nodes
    IN  IF ContainsPoint(t[n[1]].boundary, P[p]) THEN Remove(t, n[1], p, P)
        ELSE IF ContainsPoint(t[n[2]].boundary, P[p]) THEN Remove(t, n[2], p, P)
        ELSE IF ContainsPoint(t[n[3]].boundary, P[p]) THEN Remove(t, n[3], p, P)
        ELSE IF ContainsPoint(t[n[4]].boundary, P[p]) THEN Remove(t, n[4], p, P)
        ELSE [ok |-> FALSE, t |-> t]

\* for _, node := range qt.nodes { if node.Remove(p) { return true } }; return false
RemoveChildren(t, qt, p, P) ==
    LET n  == t[qt].nodes
        r1 == Remove(t, n[1], p, P)
        r2 == Remove(r1.t, n[2], p, P)
        r3 == Remove(r2.t, n[3], p, P)
        r4 == Remove(r3.t, n[4], p, P)
    IN  IF r1.ok THEN r1
        ELSE IF r2.ok THEN r2
        ELSE IF r3.ok THEN r3
        ELSE r4

\* Remove that makes the parent a leaf again when it empties a list
RemoveMerge(t, qt, p, P) ==
    IF ~ContainsPoint(t[qt].boundary, P[p]) THEN [ok |-> FALSE, t |-> t]
    ELSE IF t[qt].nodes[1] = Nil
         THEN LET i  == IndexOf(t[qt].points, p, 1)
                  t1 == [t EXCEPT ![qt].points = SwapRemove(@, i)]
              IN  IF i = 0 THEN [ok |-> FALSE, t |-> t]
                  ELSE IF t1[qt].points = <<>> /\ t[qt].parent # Nil
                       THEN [ok |-> TRUE,
                             t  |-> [t1 EXCEPT ![t[qt].parent].nodes = <<Nil, Nil, Nil, Nil>>]]
                       ELSE [ok |-> TRUE, t |-> t1]
         ELSE RemoveChildren(t, qt, p, P)

Remove(t, qt, p, P) ==
    IF ~ContainsPoint(t[qt].boundary, P[p]) THEN [ok |-> FALSE, t |-> t]
    ELSE IF t[qt].nodes[1] = Nil
         THEN LET i == IndexOf(t[qt].points, p, 1)
              IN  IF i = 0 THEN [ok |-> FALSE, t |-> t]
                  ELSE [ok |-> TRUE,
                        t  |-> [t EXCEPT ![qt].points = SwapRemove(@, i)]]
         ELSE RemoveChildren(t, qt, p, P)

RECURSIVE RInsert(_, _, _, _)

\* RInsert that puts the point back in the list it came from
RInsertHere(t, qt, p, P) ==
    [ok |-> TRUE, t |-> [t EXCEPT ![qt].points = Append(@, p)]]

RInsert(t, qt, p, P) ==
    LET r == Insert(t, qt, p, P)
    IN  IF r.ok THEN r
        ELSE IF t[qt].parent = Nil THEN [ok |-> FALSE, t |-> r.t]
        ELSE RInsert(r.t, t[qt].parent, p, P)

RECURSIVE Update(_, _, _, _, _)
RECURSIVE UpdateChildren(_, _, _, _, _)

\* a failed node.Update(p, np) may already have moved p and taken it out of
\* its leaf: the loop goes on from the heap that call left
UpdateChildren(t, qt, p, np, P) ==
    LET n  == t[qt].nodes
        r1 == Update(t, n[1], p, np, P)
        r2 == Update(r1.t, n[2], p, np, r1.P)
        r3 == Update(r2.t, n[3], p, np, r2.P)
        r4 == Update(r3.t, n[4], p, np, r3.P)
    IN  IF r1.ok THEN r1
        ELSE IF r2.ok THEN r2
        ELSE IF r3.ok THEN r3
        ELSE r4

\* Update that never moves the point to another leaf: the new coordinates
\* are written and the point stays in the list that held it
UpdateInPlace(t, qt, p, np, P) ==
    IF ~ContainsPoint(t[qt].boundary, P[p]) THEN [ok |-> FALSE, t |-> t, P |-> P]
    ELSE IF t[qt].nodes[1] = Nil
         THEN LET i == IndexOf(t[qt].points, p, 1)
              IN  IF i = 0 THEN [ok |-> FALSE, t |-> t, P |-> P]
                  ELSE [ok |-> TRUE, t |-> t,
                        P |-> [P EXCEPT ![p].x = np.x, ![p].y = np.y]]
         ELSE UpdateChildren(t, qt, p, np, P)

\* Update that takes the point out of its list and inserts it again from
\* the leaf upwards even when the leaf still contains it
UpdateReinsert(t, qt, p, np, P) ==
    IF ~ContainsPoint(t[qt].boundary, P[p]) THEN [ok |-> FALSE, t |-> t, P |-> P]
    ELSE IF t[qt].nodes[1] = Nil
         THEN LET i == IndexOf(t[qt].points, p, 1)
              IN  IF i = 0 THEN [ok |-> FALSE, t |-> t, P |-> P]
                  ELSE LET P1 == [P EXCEPT ![p].x = np.x, ![p].y = np.y]
                           t1 == [t EXCEPT ![qt].points = SwapRemove(@, i)]
                           r  == RInsert(t1, qt, p, P1)
                       IN  [ok |-> r.ok, t |-> r.t, P |-> P1]
         ELSE UpdateChildren(t, qt, p, np, P)

Update(t, qt, p, np, P) ==
    IF ~ContainsPoint(t[qt].boundary, P[p]) THEN [ok |-> FALSE, t |-> t, P |-> P]
    ELSE IF t[qt].nodes[1] = Nil
         THEN LET i == IndexOf(t[qt].points, p, 1)
              IN  IF i = 0 THEN [ok |-> FALSE, t |-> t, P |-> P]
                  ELSE LET P1 == [P EXCEPT ![p].x = np.x, ![p].y = np.y]
                       IN  IF ContainsPoint(t[qt].boundary, np)
                           THEN [ok |-> TRUE, t |-> t, P |-> P1]
                           ELSE LET t1 == [t EXCEPT ![qt].points = SwapRemove(@, i)]
                                    r  == RInsert(t1, qt, p, P1)
                                IN  [ok |-> r.ok, t |-> r.t, P |-> P1]
         ELSE UpdateChildren(t, qt, p, np, P)

RECURSIVE Search(_, _, _, _)

\* the points of s, in order, that lie in box a
InBox(s, a, P) == SelectSeq(s, LAMBDA p : ContainsPoint(a, P[p]))

Search(t, qt, a, P) ==
    IF ~Intersect(t[qt].boundary, a) THEN <<>>
    ELSE LET own == InBox(t[qt].points, a, P)
         IN  IF t[qt].nodes[1] = Nil THEN own
             ELSE own \o Search(t, t[qt].nodes[1], a, P)
                      \o Search(t, t[qt].nodes[2], a, P)
                      \o Search(t, t[qt].nodes[3], a, P)
                      \o Search(t, t[qt].nodes[4], a, P)

(***************************************************************************)
(* KNearest.  A call returns [res, v, panic]: the slice it returns, the    *)
(* visited map v as the call leaves it (the map is shared by reference),   *)
(* and whether the call ended in a runtime panic.                          *)
(***************************************************************************)
\* a filter is a func(*Point) bool or nil; a non-nil filter of the model
\* accepts the points whose data is in accept
NilFilter == [nil |-> TRUE, accept |-> {}]

Accepts(fn, pt) == fn.nil \/ pt.data \in fn.accept

\* results[len(results)-i:]: the last i elements are kept
TruncateTail(res, i) ==
    IF i < 0 \/ i > Len(res) THEN [res |-> <<>>, panic |-> TRUE]
    ELSE [res |-> SubSeq(res, Len(res) - i + 1, Len(res)), panic |-> FALSE]

\* results[:i-1]: one element too few is kept
TruncateShort(res, i) ==
    IF i < 0 \/ i > Len(res) THEN [res |-> <<>>, panic |-> TRUE]
    ELSE [res |-> SubSeq(res, 1, i - 1), panic |-> FALSE]

\* results[:i]: Go panics when i is negative or past the slice
Truncate(res, i) ==
    IF i < 0 \/ i > Len(res) THEN [res |-> <<>>, panic |-> TRUE]
    ELSE [res |-> SubSeq(res, 1, i), panic |-> FALSE]

\* sort.Slice on a short slice is insertion sort: element j moves down
\* while it is less than the one before it
RECURSIVE SiftDown(_, _, _, _, _)
SiftDown(s, j, c, P, lo) ==
    IF j > lo /\ distance(P[s[j]], c) < distance(P[s[j - 1]], c)
    THEN SiftDown([s EXCEPT ![j] = s[j - 1], ![j - 1] = s[j]], j - 1, c, P, lo)
    ELSE s

RECURSIVE SortFrom(_, _, _, _)
SortFrom(s, i, c, P) ==
    IF i > Len(s) THEN s
    ELSE SortFrom(SiftDown(s, i, c, P, 1), i + 1, c, P)

\* the sort left out: the slice stays in the order it was gathered
SortNone(s, c, P) == s

\* sort.Slice(results, distance(results[i], center) < distance(results[j], center))
SortByDistance(s, c, P) == SortFrom(s, 2, c, P)

RECURSIVE knearest(_, _, _, _, _, _, _)
RECURSIVE knearestChildren(_, _, _, _, _, _, _)

\* for _, node := range qt.nodes { results = append(results, node.knearest(...)...) }
\* a panic in a child ends the loop
knearestChildren(t, qt, a, i, acc, fn, P) ==
    LET n  == t[qt].nodes
        r1 == knearest(t, n[1], a, i, acc.v, fn, P)
        r2 == knearest(t, n[2], a, i, r1.v, fn, P)
        r3 == knearest(t, n[3], a, i, r2.v, fn, P)
        r4 == knearest(t, n[4], a, i, r3.v, fn, P)
    IN  IF r1.panic THEN [res |-> <<>>, v |-> r1.v, panic |-> TRUE]
        ELSE IF r2.panic THEN [res |-> <<>>, v |-> r2.v, panic |-> TRUE]
        ELSE IF r3.panic THEN [res |-> <<>>, v |-> r3.v, panic |-> TRUE]
        ELSE IF r4.panic THEN [res |-> <<>>, v |-> r4.v, panic |-> TRUE]
        ELSE [res |-> acc.res \o r1.res \o r2.res \o r3.res \o r4.res,
              v |-> r4.v, panic |-> FALSE]

\* knearest without the step up to qt.parent: a leaf gathers only what lies
\* below it
knearestDown(t, qt, a, i, v, fn, P) ==
    IF qt \in v THEN [res |-> <<>>, v |-> v, panic |-> FALSE]
    ELSE LET v1 == v \cup {qt}
         IN  IF ~Intersect(t[qt].boundary, a)
             THEN [res |-> <<>>, v |-> v1, panic |-> FALSE]
             ELSE LET own  == SelectSeq(t[qt].points,
                                 LAMBDA p : ContainsPoint(a, P[p]) /\ Accepts(fn, P[p]))
                      down == IF t[qt].nodes[1] # Nil
                              THEN knearestChildren(t, qt, a, i,
                                       [res |-> own, v |-> v1, panic |-> FALSE], fn, P)
                              ELSE [res |-> own, v |-> v1, panic |-> FALSE]
                      srt  == SortByDistance(down.res, a.center, P)
                  IN  IF down.panic THEN [res |-> <<>>, v |-> down.v, panic |-> TRUE]
                      ELSE IF Len(srt) > i
                           THEN LET c == Truncate(srt, i)
                                IN  [res |-> c.res, v |-> down.v, panic |-> c.panic]
                           ELSE [res |-> srt, v |-> down.v, panic |-> FALSE]

knearest(t, qt, a, i, v, fn, P) ==
    IF qt \in v THEN [res |-> <<>>, v |-> v, panic |-> FALSE]
    ELSE LET v1 == v \cup {qt}
         IN  IF ~Intersect(t[qt].boundary, a)
             THEN [res |-> <<>>, v |-> v1, panic |-> FALSE]
             ELSE LET own  == SelectSeq(t[qt].points,
                                 LAMBDA p : ContainsPoint(a, P[p]) /\ Accepts(fn, P[p]))
                      down == IF t[qt].nodes[1] # Nil
                              THEN knearestChildren(t, qt, a, i,
                                       [res |-> own, v |-> v1, panic |-> FALSE], fn, P)
                              ELSE [res |-> own, v |-> v1, panic |-> FALSE]
                      up   == IF t[qt].parent # Nil /\ ~down.panic
                              THEN knearest(t, t[qt].parent, a, i, down.v, fn, P)
                              ELSE [res |-> <<>>, v |-> down.v, panic |-> down.panic]
                      srt  == SortByDistance(down.res \o up.res, a.center, P)
                  IN  IF up.panic THEN [res |-> <<>>, v |-> up.v, panic |-> TRUE]
                      ELSE IF Len(srt) > i
                           THEN LET c == Truncate(srt, i)
                                IN  [res |-> c.res, v |-> up.v, panic |-> c.panic]
                           ELSE [res |-> srt, v |-> up.v, panic |-> FALSE]

RECURSIVE kNearestRoot(_, _, _, _, _, _, _)
RECURSIVE kNearestRootChildren(_, _, _, _, _, _, _)

\* if len(results) >= i { return results[:i] }, and the slice as it is
\* otherwise
Cut(res, i, v) ==
    IF Len(res) >= i
    THEN LET c == Truncate(res, i)
         IN  [res |-> c.res, v |-> v, panic |-> c.panic]
    ELSE [res |-> res, v |-> v, panic |-> FALSE]

\* the loop over qt.nodes of kNearestRoot, which returns as soon as it has
\* i results, and the check after the loop
kNearestRootChildren(t, qt, a, i, v, fn, P) ==
    LET n  == t[qt].nodes
        r1 == kNearestRoot(t, n[1], a, i, v, fn, P)
        r2 == kNearestRoot(t, n[2], a, i, r1.v, fn, P)
        r3 == kNearestRoot(t, n[3], a, i, r2.v, fn, P)
        r4 == kNearestRoot(t, n[4], a, i, r3.v, fn, P)
        s1 == r1.res
        s2 == s1 \o r2.res
        s3 == s2 \o r3.res
        s4 == s3 \o r4.res
    IN  IF r1.panic THEN [res |-> <<>>, v |-> r1.v, panic |-> TRUE]
        ELSE IF Len(s1) >= i THEN Cut(s1, i, r1.v)
        ELSE IF r2.panic THEN [res |-> <<>>, v |-> r2.v, panic |-> TRUE]
        ELSE IF Len(s2) >= i THEN Cut(s2, i, r2.v)
        ELSE IF r3.panic THEN [res |-> <<>>, v |-> r3.v, panic |-> TRUE]
        ELSE IF Len(s3) >= i THEN Cut(s3, i, r3.v)
        ELSE IF r4.panic THEN [res |-> <<>>, v |-> r4.v, panic |-> TRUE]
        ELSE Cut(s4, i, r4.v)

kNearestRoot(t, qt, a, i, v, fn, P) ==
    IF ~Intersect(t[qt].boundary, a) THEN [res |-> <<>>, v |-> v, panic |-> FALSE]
    ELSE IF t[qt].nodes[1] = Nil
         THEN LET r == knearest(t, qt, a, i, v, fn, P)
              IN  IF r.panic THEN r ELSE Cut(r.res, i, r.v)
         ELSE kNearestRootChildren(t, qt, a, i, v, fn, P)

KNearest(t, qt, a, i, fn, P) == kNearestRoot(t, qt, a, i, {}, fn, P)

(***************************************************************************)
(* The caller.  The root covers [-RootHalf, RootHalf] on both axes.  The   *)
(* caller holds NumPoints Point objects; Insert is given a point made by   *)
(* NewPoint at one of the places Pos, Update a new place from Pos, and the *)
(* queries a box from Boxes.  last is the call that has just returned: the  *)
(* point it was given, the place it was given (of the point for Insert and *)
(* Remove, the new place for Update), the value it returned and whether it *)
(* changed the node that holds the point.  The caller takes the result     *)
(* (Return) before it makes the next call.                                 *)
(***************************************************************************)
Root == <<>>

RootBox == NewAABB(NewPoint(0, 0, Nil), NewPoint(RootHalf, RootHalf, Nil))

\* the centre (a corner shared by all four quadrants) and a second place in
\* the NW quadrant, the NE corner of the root box, a place in the SE
\* quadrant, and a place outside the root box
Pos == { <<0, 0>>, <<-1, 1>>, <<RootHalf, RootHalf>>, <<1, -1>>,
         <<RootHalf + 1, 0>> }

\* the whole domain; a box around (1, -1) that straddles the quadrants; a
\* box that touches the root box in its NE corner only; a box apart from it
Boxes == { RootBox,
           NewAABB(NewPoint(1, -1, Nil), NewPoint(2, 2, Nil)),
           NewAABB(NewPoint(RootHalf + 1, RootHalf + 1, Nil), NewPoint(1, 1, Nil)),
           NewAABB(NewPoint(RootHalf + 3, 0, Nil), NewPoint(1, 1, Nil)) }

Ks == -1 .. NumPoints

Label(p) == IF p % 2 = 1 THEN "a" ELSE "b"

Filters == { NilFilter, [nil |-> FALSE, accept |-> {"a"}] }

\* the nodes that hold p in their list
Holders(t, p) == { n \in DOMAIN t : \E j \in 1 .. Len(t[n].points) : t[n].points[j] = p }

Stored(t, p) == Holders(t, p) # {}

\* the struct of a point the caller has let go of
Zero(p) == NewPoint(0, 0, Label(p))

\* the places of a point that the tree does not hold when it is handed to
\* Remove or Update: the centre of the root box and a place outside it
Away == { <<0, 0>>, <<RootHalf + 1, 0>> }

\* The places a point handed to Remove or Update may be at: where it is when
\* the tree holds it, and otherwise one of Away.
Places(p) ==
    IF Stored(tree, p) THEN { <<pts[p].x, pts[p].y>> } ELSE Away

\* the heap with the point handed to the call
Arg(p, pos) == [pts EXCEPT ![p] = NewPoint(pos[1], pos[2], Label(p))]

\* After a call the caller keeps no point that the tree does not hold.
Keep(t, P) == [p \in Ids |-> IF Stored(t, p) THEN P[p] ELSE Zero(p)]

\* no call is waiting for its result to be taken
Idle == [op |-> "None", p |-> 0, arg |-> <<0, 0>>, ret |-> TRUE, moved |-> FALSE]

Init ==
    /\ tree = [n \in {Root} |-> New(RootBox, 0, Nil)]
    /\ pts = [p \in Ids |-> Zero(p)]
    /\ last = Idle

\* p := NewPoint(x, y, data); root.Insert(p), for a point that is not stored
DoInsert(p, pos) ==
    /\ last = Idle
    /\ ~Stored(tree, p)
    /\ \E r \in {Insert(tree, Root, p, Arg(p, pos))} :
           /\ tree' = r.t
           /\ pts' = Keep(r.t, Arg(p, pos))
           /\ last' = [op |-> "Insert", p |-> p, arg |-> pos, ret |-> r.ok,
                        moved |-> Holders(r.t, p) # Holders(tree, p)]

\* root.Remove(p)
DoRemove(p, pos) ==
    /\ last = Idle
    /\ pos \in Places(p)
    /\ \E r \in {Remove(tree, Root, p, Arg(p, pos))} :
           /\ tree' = r.t
           /\ pts' = Keep(r.t, Arg(p, pos))
           /\ last' = [op |-> "Remove", p |-> p, arg |-> pos, ret |-> r.ok,
                        moved |-> Holders(r.t, p) # Holders(tree, p)]

\* root.Update(p, NewPoint(x, y, nil))
DoUpdate(p, pos, to) ==
    /\ last = Idle
    /\ pos \in Places(p)
    /\ \E r \in {Update(tree, Root, p, NewPoint(to[1], to[2], Nil), Arg(p, pos))} :
           /\ tree' = r.t
           /\ pts' = Keep(r.t, r.P)
           /\ last' = [op |-> "Update", p |-> p, arg |-> to, ret |-> r.ok,
                        moved |-> Holders(r.t, p) # Holders(tree, p)]

\* the caller has read the returned value
Return ==
    /\ last # Idle
    /\ last' = Idle
    /\ UNCHANGED <<tree, pts>>

Next ==
    \/ \E p \in Ids : \E pos \in Pos : DoInsert(p, pos)
    \/ \E p \in Ids : \E pos \in Places(p) : DoRemove(p, pos)
    \/ \E p \in Ids : \E pos \in Places(p) : \E to \in Pos : DoUpdate(p, pos, to)
    \/ Return

Spec == Init /\ [][Next]_vars

(***************************************************************************)
(* Vocabulary of the properties.                                           *)
(***************************************************************************)
Range(s) == { s[j] : j \in 1 .. Len(s) }

NoRepeat(s) == \A j, k \in 1 .. Len(s) : s[j] = s[k] => j = k

StoredIds(t) == { p \in Ids : Stored(t, p) }

\* pt lies in the closed box a
Inside(a, pt) ==
    /\ a.center.x - a.half.x <= pt.x /\ pt.x <= a.center.x + a.half.x
    /\ a.center.y - a.half.y <= pt.y /\ pt.y <= a.center.y + a.half.y

\* The caller is between two calls.  It is then that it queries the tree; a
\* query reads tree and pts only, and Return leaves them as they are, so the
\* heaps of the states at rest are all the heaps there are.
AtRest == last = Idle

\* the place last.arg as a point
At(pos) == NewPoint(pos[1], pos[2], Nil)

\* the stored points that lie in the closed box a
StoredInside(t, P, a) == { p \in StoredIds(t) : Inside(a, P[p]) }

\* the number of places, over all the lists of the tree, that hold p
Occurrences(t, p) ==
    LET sl == UNION { { <<n, j>> : j \in { k \in 1 .. Len(t[n].points) :
                                               t[n].points[k] = p } } :
                      n \in DOMAIN t }
    IN  Cardinality(sl)

(***************************************************************************)
(* C1.  In every reachable tree, for every query box, Search on the root   *)
(* returns exactly the stored points whose coordinates lie in the closed   *)
(* box, each once: the pruning by Intersect misses none and no point       *)
(* outside the box is returned.                                            *)
(***************************************************************************)
C1_SearchExact ==
    AtRest => \A a \in Boxes :
        LET res == Search(tree, Root, a, pts)
        IN  /\ Range(res) = StoredInside(tree, pts, a)
            /\ NoRepeat(res)

\* a split root, a stored point found in the box, a stored point left out,
\* and a node that holds points and is pruned
C1_Witness ==
    /\ AtRest
    /\ ~IsLeaf(tree, Root)
    /\ \E a \in Boxes :
        /\ Search(tree, Root, a, pts) # <<>>
        /\ StoredIds(tree) \ Range(Search(tree, Root, a, pts)) # {}
        /\ \E n \in DOMAIN tree :
              /\ tree[n].points # <<>>
              /\ ~Intersect(tree[n].boundary, a)

(***************************************************************************)
(* C2.  Insert on the root returns true exactly when the point lies in the *)
(* root's closed box, whatever the shape of the tree; a call that returns  *)
(* false leaves the tree as it was, and after a call that returns true the *)
(* point is held once, by one leaf.                                        *)
(***************************************************************************)
C2_InsertContract ==
    [][last'.op = "Insert" =>
          /\ last'.ret = Inside(RootBox, At(last'.arg))
          /\ ~last'.ret => (tree' = tree /\ pts' = pts)
          /\ last'.ret =>
                /\ Occurrences(tree', last'.p) = 1
                /\ \A n \in Holders(tree', last'.p) : IsLeaf(tree', n)]_vars

\* an Insert has returned true for a point on the corner shared by the four
\* quadrants, which went to a leaf at MaxDepth that now holds more than
\* Capacity points
C2_Witness ==
    /\ last.op = "Insert" /\ last.ret
    /\ \E n \in DOMAIN tree :
          /\ tree[n].depth = MaxDepth
          /\ Len(tree[n].points) > Capacity
          /\ tree[n].points[Len(tree[n].points)] = last.p
          /\ pts[last.p].x = 0 /\ pts[last.p].y = 0

(***************************************************************************)
(* C3.  Insert/Remove round trip.  In every reachable tree an Insert of a  *)
(* point that lies in the root box and is not stored returns true and      *)
(* stores it; a Remove of a stored point, whatever was done to the tree    *)
(* since its Insert and wherever the point lies, returns true, and after   *)
(* it the point is in no list and Search returns it for no box.            *)
(***************************************************************************)
C3_RoundTrip ==
    [][/\ (last'.op = "Insert" /\ Inside(RootBox, At(last'.arg))) =>
              /\ last'.ret
              /\ Stored(tree', last'.p)
              /\ \A a \in Boxes :
                    Inside(a, At(last'.arg)) => last'.p \in Range(Search(tree', Root, a, pts'))
       /\ (last'.op = "Remove" /\ Stored(tree, last'.p)) =>
              /\ last'.ret
              /\ ~Stored(tree', last'.p)
              /\ \A a \in Boxes : last'.p \notin Range(Search(tree', Root, a, pts'))]_vars

\* a Remove has returned true on a split tree: the point is gone and another
\* point is still stored
C3_Witness ==
    /\ last.op = "Remove" /\ last.ret
    /\ ~IsLeaf(tree, Root)
    /\ ~Stored(tree, last.p)
    /\ StoredIds(tree) # {}

(***************************************************************************)
(* Vocabulary of the KNearest properties.                                  *)
(***************************************************************************)
\* the stored points that lie in the closed box a and that fn accepts
Matching(t, P, a, fn) ==
    { p \in StoredInside(t, P, a) : fn.nil \/ P[p].data \in fn.accept }

\* the square of the Euclidean distance from pt to the centre of a
Dist2(a, pt) ==
    (pt.x - a.center.x) * (pt.x - a.center.x)
        + (pt.y - a.center.y) * (pt.y - a.center.y)

\* s is in non-decreasing order of distance to the centre of a
Ascending(s, a, P) ==
    \A j \in 1 .. Len(s) - 1 : Dist2(a, P[s[j]]) <= Dist2(a, P[s[j + 1]])

NonNegKs == { i \in Ks : i >= 0 }

Min(m, n) == IF m <= n THEN m ELSE n

\* the points held by node n and by the nodes below it
RECURSIVE Under(_, _)
Under(t, n) ==
    Range(t[n].points) \cup
        (IF IsLeaf(t, n) THEN {}
         ELSE UNION { Under(t, t[n].nodes[c]) : c \in 1 .. 4 })

(***************************************************************************)
(* C4.  For every reachable tree, box, k >= 0 and filter, KNearest on the  *)
(* root returns at most k points, each a stored point that lies in the box *)
(* and passes the filter, in non-decreasing order of distance to the       *)
(* centre of the box.                                                      *)
(***************************************************************************)
C4_KNearestSound ==
    AtRest => \A a \in Boxes, fn \in Filters :
        LET m == Matching(tree, pts, a, fn)
        IN  \A i \in NonNegKs :
                LET r == KNearest(tree, Root, a, i, fn, pts)
                IN  /\ ~r.panic
                    /\ Len(r.res) <= i
                    /\ Range(r.res) \subseteq m
                    /\ Ascending(r.res, a, pts)

\* a split root, a box that straddles the quadrants, and a call that
\* returns k = 2 of three matching points that lie in different quadrants
\* at different distances
C4_Witness ==
    /\ AtRest
    /\ ~IsLeaf(tree, Root)
    /\ \E a \in Boxes, fn \in Filters :
          LET r == KNearest(tree, Root, a, 2, fn, pts)
          IN  /\ Len(r.res) = 2
              /\ Dist2(a, pts[r.res[1]]) < Dist2(a, pts[r.res[2]])
              /\ Cardinality(Matching(tree, pts, a, fn)) = 3
              /\ \E c, d \in 1 .. 4 :
                    /\ c # d
                    /\ Under(tree, tree[Root].nodes[c]) # {}
                    /\ Under(tree, tree[Root].nodes[d]) # {}

(***************************************************************************)
(* C5.  KNearest returns the k nearest: for every reachable tree, box,     *)
(* k >= 0 and filter, the result holds min(k, m) distinct points of the m  *)
(* matching points, and no matching point left out is strictly closer to   *)
(* the centre of the box than a returned one.                              *)
(***************************************************************************)
C5_KNearestNearest ==
    AtRest => \A a \in Boxes, fn \in Filters :
        LET m == Matching(tree, pts, a, fn)
        IN  \A i \in NonNegKs :
                LET r == KNearest(tree, Root, a, i, fn, pts)
                IN  /\ ~r.panic
                    /\ Len(r.res) = Min(i, Cardinality(m))
                    /\ NoRepeat(r.res)
                    /\ Range(r.res) \subseteq m
                    /\ \A p \in Range(r.res), q \in m \ Range(r.res) :
                          Dist2(a, pts[p]) <= Dist2(a, pts[q])

\* a split root and a call with k = 1 for which the first quadrant holds a
\* matching point and the nearest matching point lies in a later quadrant
C5_Witness ==
    /\ AtRest
    /\ ~IsLeaf(tree, Root)
    /\ \E a \in Boxes, fn \in Filters :
          LET r == KNearest(tree, Root, a, 1, fn, pts)
              m == Matching(tree, pts, a, fn)
          IN  /\ Len(r.res) = 1
              /\ m \cap Under(tree, tree[Root].nodes[1]) # {}
              /\ r.res[1] \notin Under(tree, tree[Root].nodes[1])
              /\ \A q \in m \ {r.res[1]} : Dist2(a, pts[r.res[1]]) < Dist2(a, pts[q])

\* the matching points held under the children c of the root with lo <= c <= hi
UnderChildren(t, P, a, fn, lo, hi) ==
    Matching(t, P, a, fn) \cap
        UNION { Under(t, t[Root].nodes[c]) : c \in lo .. hi }

(***************************************************************************)
(* C6 as stated.  KNearest on a split root stops at the quadrants that     *)
(* come first: when the children before child j hold k matching points,    *)
(* the result is made of them and no point held under child j or a later   *)
(* child is returned, closer or not.                                       *)
(***************************************************************************)
C6_EarlyTruncation ==
    AtRest => \A a \in Boxes, i \in NonNegKs, fn \in Filters :
        ~IsLeaf(tree, Root) =>
            \A j \in 2 .. 4 :
                Cardinality(UnderChildren(tree, pts, a, fn, 1, j - 1)) >= i
                    => Range(KNearest(tree, Root, a, i, fn, pts).res)
                           \cap UnderChildren(tree, pts, a, fn, j, 4) = {}

(***************************************************************************)
(* C6 as amended.  KNearest on a split root does not stop at the quadrants *)
(* that come first: the search that starts at the first leaf reached       *)
(* climbs to the root and gathers the matching points of every quadrant    *)
(* before it sorts and truncates.  So when the children before child j     *)
(* hold k >= 1 matching points, the call returns k points, and a matching  *)
(* point held under child j or a later child is among them whenever fewer  *)
(* than k other matching points are as close to the centre as it is.       *)
(***************************************************************************)
C6_LaterSiblingsConsulted ==
    AtRest => \A a \in Boxes, i \in NonNegKs \ {0}, fn \in Filters :
        ~IsLeaf(tree, Root) =>
            \A j \in 2 .. 4 :
                Cardinality(UnderChildren(tree, pts, a, fn, 1, j - 1)) >= i =>
                    LET r == KNearest(tree, Root, a, i, fn, pts)
                    IN  /\ ~r.panic
                        /\ Len(r.res) = i
                        /\ \A q \in UnderChildren(tree, pts, a, fn, j, 4) :
                              Cardinality({ p \in Matching(tree, pts, a, fn) :
                                  Dist2(a, pts[p]) <= Dist2(a, pts[q]) }) <= i
                                  => q \in Range(r.res)

\* a split root whose first quadrant holds k = 2 matching points, and a
\* point of a later quadrant that is closer than both and is returned
C6_Witness ==
    /\ AtRest
    /\ ~IsLeaf(tree, Root)
    /\ \E a \in Boxes, fn \in Filters :
          /\ Cardinality(UnderChildren(tree, pts, a, fn, 1, 1)) >= 2
          /\ \E q \in UnderChildren(tree, pts, a, fn, 2, 4) :
                /\ q \in Range(KNearest(tree, Root, a, 2, fn, pts).res)
                /\ \A p \in UnderChildren(tree, pts, a, fn, 1, 1) :
                      Dist2(a, pts[q]) < Dist2(a, pts[p])

(***************************************************************************)
(* C7.  For every reachable tree, box and filter, KNearest with k <= 0,    *)
(* zero or negative, returns an empty sequence and does not end in a       *)
(* runtime panic.                                                          *)
(***************************************************************************)
C7_NonPositiveK ==
    AtRest => \A a \in Boxes, i \in { k \in Ks : k <= 0 }, fn \in Filters :
        LET r == KNearest(tree, Root, a, i, fn, pts)
        IN  ~r.panic /\ r.res = <<>>

(***************************************************************************)
(* C8.  When k is at least the number m of matching points, KNearest       *)
(* returns exactly those m points, each once.                              *)
(***************************************************************************)
C8_AllWhenKLarge ==
    AtRest => \A a \in Boxes, fn \in Filters :
        LET m == Matching(tree, pts, a, fn)
        IN  \A i \in NonNegKs :
                i >= Cardinality(m) =>
                    LET r == KNearest(tree, Root, a, i, fn, pts)
                    IN  /\ ~r.panic
                        /\ Range(r.res) = m
                        /\ Len(r.res) = Cardinality(m)

\* a call with k = m = NumPoints on a tree whose matching points are held at
\* two depths, under two quadrants of the root
C8_Witness ==
    AtRest /\ \E a \in Boxes :
        /\ Cardinality(Matching(tree, pts, a, NilFilter)) = NumPoints
        /\ Len(KNearest(tree, Root, a, NumPoints, NilFilter, pts).res) = NumPoints
        /\ \E n1, n2 \in DOMAIN tree :
              /\ tree[n1].depth = 1 /\ tree[n2].depth = 2
              /\ tree[n1].points # <<>> /\ tree[n2].points # <<>>
              /\ tree[n2].parent # n1

(***************************************************************************)
(* C9.  Update relocation.  For a stored point p, Update(p, new) on the    *)
(* root returns true exactly when the new coordinates lie in the root box. *)
(* After a true result p is held once, with the new coordinates; Search    *)
(* returns p for exactly the boxes that contain the new coordinates; and   *)
(* every other point is stored or not as before, with its coordinates.     *)
(***************************************************************************)
C9_UpdateRelocates ==
    [][(last'.op = "Update" /\ Stored(tree, last'.p)) =>
          /\ last'.ret = Inside(RootBox, At(last'.arg))
          /\ last'.ret =>
                /\ Occurrences(tree', last'.p) = 1
                /\ pts'[last'.p] = [pts[last'.p] EXCEPT !.x = last'.arg[1],
                                                         !.y = last'.arg[2]]
                /\ \A a \in Boxes :
                      (last'.p \in Range(Search(tree', Root, a, pts')))
                          <=> Inside(a, At(last'.arg))
                /\ \A q \in Ids \ {last'.p} :
                      /\ Occurrences(tree', q) = Occurrences(tree, q)
                      /\ pts'[q] = pts[q]]_vars

\* an Update has returned true and moved its point to another leaf, two
\* levels down, of a tree that holds other points
C9_Witness ==
    /\ last.op = "Update" /\ last.ret /\ last.moved
    /\ \E n \in Holders(tree, last.p) : tree[n].depth = 2
    /\ StoredIds(tree) # {last.p}

(***************************************************************************)
(* C10.  Update in place.  When the new coordinates of a stored point lie  *)
(* in the box of the leaf that holds it, Update returns true and changes   *)
(* the coordinates of that point only: the nodes, their boxes and depths   *)
(* and every list, with its order, stay as they were.                      *)
(***************************************************************************)
C10_UpdateInPlace ==
    [][(/\ last'.op = "Update"
        /\ Stored(tree, last'.p)
        /\ \A n \in Holders(tree, last'.p) : Inside(tree[n].boundary, At(last'.arg)))
          => /\ last'.ret
             /\ tree' = tree
             /\ pts' = [pts EXCEPT ![last'.p].x = last'.arg[1],
                                   ![last'.p].y = last'.arg[2]]]_vars

\* an Update has returned true and left its point, now on the corner shared
\* by the four quadrants, in a leaf under a quadrant that an Insert would
\* not have chosen for it
C10_Witness ==
    /\ last.op = "Update" /\ last.ret /\ ~last.moved
    /\ pts[last.p].x = 0 /\ pts[last.p].y = 0
    /\ ~IsLeaf(tree, Root)
    /\ last.p \notin Under(tree, tree[Root].nodes[1])
    /\ Stored(tree, last.p)

(***************************************************************************)
(* A caller that also inserts points the tree already holds, and that      *)
(* makes Insert and Remove calls only.  Insert does not look for the point *)
(* in the lists, so nothing in the code stops it; the model stops at       *)
(* MaxCopies places per point to stay finite.                              *)
(***************************************************************************)
MaxCopies == 2

\* root.Insert(p) for a point p that is stored
DoInsertStored(p) ==
    /\ last = Idle
    /\ Stored(tree, p)
    /\ Occurrences(tree, p) < MaxCopies
    /\ \E r \in {Insert(tree, Root, p, pts)} :
           /\ tree' = r.t
           /\ pts' = Keep(r.t, pts)
           /\ last' = [op |-> "Insert", p |-> p, arg |-> <<pts[p].x, pts[p].y>>,
                        ret |-> r.ok, moved |-> Holders(r.t, p) # Holders(tree, p)]

NextDup ==
    \/ \E p \in Ids : \E pos \in Pos : DoInsert(p, pos)
    \/ \E p \in Ids : DoInsertStored(p)
    \/ \E p \in Ids : \E pos \in Places(p) : DoRemove(p, pos)
    \/ Return

SpecDup == Init /\ [][NextDup]_vars

(***************************************************************************)
(* C11.  No duplicates: after any sequence of Insert, Remove and Update    *)
(* calls on the root, Insert of a stored point included, every point is    *)
(* held in at most one place of one list, and Search and KNearest return   *)
(* no point twice.                                                         *)
(***************************************************************************)
C11_NoDuplicates ==
    AtRest =>
        /\ \A p \in Ids : Occurrences(tree, p) <= 1
        /\ \A a \in Boxes : NoRepeat(Search(tree, Root, a, pts))
        /\ \A a \in Boxes, i \in NonNegKs :
              NoRepeat(KNearest(tree, Root, a, i, NilFilter, pts).res)

(***************************************************************************)
(* C12.  Capacity/MaxDepth boundary.  In every reachable state no node is  *)
(* deeper than MaxDepth and a list longer than Capacity is the list of a   *)
(* leaf at depth MaxDepth; and an Insert whose point belongs in a leaf at   *)
(* MaxDepth that is at capacity returns true, appends the point to the     *)
(* list of that leaf and makes no node.                                    *)
(***************************************************************************)
\* the first child of the split node n, in the fixed order, whose closed
\* box contains pt
FirstChild(t, n, pt) ==
    t[n].nodes[CHOOSE c \in 1 .. 4 :
        /\ Inside(t[t[n].nodes[c]].boundary, pt)
        /\ \A d \in 1 .. c - 1 : ~Inside(t[t[n].nodes[d]].boundary, pt)]

\* the leaf a point inside the box of node n belongs in
RECURSIVE Target(_, _, _)
Target(t, n, pt) ==
    IF IsLeaf(t, n) THEN n ELSE Target(t, FirstChild(t, n, pt), pt)

C12_Boundary ==
    /\ [](\A n \in DOMAIN tree :
            /\ tree[n].depth <= MaxDepth
            /\ Len(tree[n].points) > Capacity =>
                  (tree[n].depth = MaxDepth /\ IsLeaf(tree, n)))
    /\ [][(last'.op = "Insert" /\ Inside(RootBox, At(last'.arg))) =>
              LET n == Target(tree, Root, At(last'.arg))
              IN  (tree[n].depth = MaxDepth /\ Len(tree[n].points) >= Capacity)
                      => /\ last'.ret
                         /\ tree' = [tree EXCEPT ![n].points = Append(@, last'.p)]]_vars

\* an Insert has just put point number Capacity + 1 in a leaf at MaxDepth
C12_Witness ==
    /\ last.op = "Insert" /\ last.ret
    /\ \E n \in DOMAIN tree :
          /\ tree[n].depth = MaxDepth
          /\ IsLeaf(tree, n)
          /\ Len(tree[n].points) = Capacity + 1
          /\ last.p \in Range(tree[n].points)

(***************************************************************************)
(* C13.  Containment.  In every reachable state every point held in a list *)
(* has its current coordinates inside the closed box of the node that      *)
(* holds it: after a split has handed the points down, after an Update in  *)
(* place and after an Update that moved the point through RInsert.         *)
(***************************************************************************)
C13_Containment ==
    \A n \in DOMAIN tree :
        \A j \in 1 .. Len(tree[n].points) :
            Inside(tree[n].boundary, pts[tree[n].points[j]])

\* an Update has moved its point to a leaf two levels down, made by a
\* split that handed points down, where the point lies on the edge of the
\* box of the leaf
C13_Witness ==
    /\ last.op = "Update" /\ last.ret /\ last.moved
    /\ \E n \in Holders(tree, last.p) :
          /\ tree[n].depth = 2
          /\ Len(tree[n].points) >= 2
          /\ ~ContainsPointOpen(tree[n].boundary, pts[last.p])

(***************************************************************************)
(* C14.  Node shape.  In every reachable state each node has no child or   *)
(* four; a node with children has an empty list; every child is one level  *)
(* deeper than its parent and its parent field is the node that holds it;  *)
(* the root has depth 0 and no parent.                                     *)
(***************************************************************************)
C14_NodeShape ==
    /\ tree[Root].depth = 0
    /\ tree[Root].parent = Nil
    /\ \A n \in DOMAIN tree :
          \/ \A c \in 1 .. 4 : tree[n].nodes[c] = Nil
          \/ /\ tree[n].points = <<>>
             /\ \A c \in 1 .. 4 :
                   /\ tree[n].nodes[c] \in DOMAIN tree
                   /\ tree[tree[n].nodes[c]].depth = tree[n].depth + 1
                   /\ tree[tree[n].nodes[c]].parent = n
             /\ \A c, d \in 1 .. 4 : tree[n].nodes[c] = tree[n].nodes[d] => c = d

\* a tree split at two levels, with points held at depth 1 and at depth 2
C14_Witness ==
    /\ \E n \in DOMAIN tree : tree[n].depth = 1 /\ ~IsLeaf(tree, n)
    /\ \E n \in DOMAIN tree : tree[n].depth = 1 /\ tree[n].points # <<>>
    /\ \E n \in DOMAIN tree : tree[n].depth = 2 /\ tree[n].points # <<>>

(***************************************************************************)
(* C15.  Subdivision exactness.  When an Insert splits the leaf its point  *)
(* belongs in (the leaf is at capacity and above MaxDepth), the four       *)
(* children have half the half-extents of the leaf, their closed boxes     *)
(* cover the box of the leaf and nothing else, and two of them share       *)
(* points of their edges only; every point the leaf held is afterwards     *)
(* held once, under the first child in the fixed order whose box contains  *)
(* it, and the list of the split node is empty.                            *)
(***************************************************************************)
\* the places with integer coordinates in and around the root box
Grid == { NewPoint(x, y, Nil) : x, y \in -(RootHalf + 1) .. RootHalf + 1 }

C15_SubdivisionExact ==
    [][(last'.op = "Insert" /\ Inside(RootBox, At(last'.arg))) =>
          LET n == Target(tree, Root, At(last'.arg))
              b == tree[n].boundary
          IN  (Len(tree[n].points) >= Capacity /\ tree[n].depth < MaxDepth) =>
                  /\ ~IsLeaf(tree', n)
                  /\ tree'[n].points = <<>>
                  /\ \A c \in 1 .. 4 :
                        LET k == tree'[tree'[n].nodes[c]].boundary
                        IN  /\ 2 * k.half.x = b.half.x
                            /\ 2 * k.half.y = b.half.y
                  /\ \A pt \in Grid :
                        Inside(b, pt) <=>
                            \E c \in 1 .. 4 : Inside(tree'[tree'[n].nodes[c]].boundary, pt)
                  /\ \A pt \in Grid : \A c, d \in 1 .. 4 :
                        (/\ c # d
                         /\ Inside(tree'[tree'[n].nodes[c]].boundary, pt)
                         /\ Inside(tree'[tree'[n].nodes[d]].boundary, pt))
                            => /\ ~ContainsPointOpen(tree'[tree'[n].nodes[c]].boundary, pt)
                               /\ ~ContainsPointOpen(tree'[tree'[n].nodes[d]].boundary, pt)
                  /\ \A p \in Range(tree[n].points) :
                        /\ Occurrences(tree', p) = 1
                        /\ p \in Under(tree', FirstChild(tree', n, pts[p]))]_vars

\* an Insert has returned true on a tree whose root is split into four
\* leaves that hold Capacity + 1 points between them, one of them a point
\* on the corner the four boxes share, held by the first child
C15_Witness ==
    /\ last.op = "Insert" /\ last.ret
    /\ ~IsLeaf(tree, Root)
    /\ \A c \in 1 .. 4 : IsLeaf(tree, tree[Root].nodes[c])
    /\ Cardinality(StoredIds(tree)) = Capacity + 1
    /\ \E p \in Range(tree[tree[Root].nodes[1]].points) :
          pts[p].x = 0 /\ pts[p].y = 0
    /\ tree[tree[Root].nodes[2]].points # <<>>

(***************************************************************************)
(* Insert with its chain of calls measured.  InsertN is Insert, divideN is *)
(* divide, and so on, with two more arguments: variant tells which file is *)
(* run (src/quadtree.go makes the children with qt.depth+1,                *)
(* src/unnamed/part_000 with qt.depth), and n is the number of Insert      *)
(* calls on the stack, this one included.  The result carries chain, the   *)
(* longest stack met.  A call that would be number MaxChain + 1 on the     *)
(* stack is not run: it returns at once with chain = MaxChain + 1, and the *)
(* calls above it return as soon as they see it.                           *)
(***************************************************************************)
\* the longest chain of Insert calls the claim allows
MaxChain == MaxDepth + 1

Max(m, n) == IF m >= n THEN m ELSE n

RECURSIVE InsertN(_, _, _, _, _, _)
RECURSIVE InsertChildrenN(_, _, _, _, _, _, _, _)
RECURSIVE ReinsertN(_, _, _, _, _, _, _)
RECURSIVE divideN(_, _, _, _, _)

\* for _, node := range qt.nodes { if node.Insert(p) { return true } }, from
\* child c on
InsertChildrenN(t, qt, p, P, variant, n, c, chain) ==
    IF c > 4 THEN [ok |-> FALSE, t |-> t, chain |-> chain]
    ELSE LET r == InsertN(t, t[qt].nodes[c], p, P, variant, n + 1)
             m == Max(chain, r.chain)
         IN  IF r.chain > MaxChain THEN [ok |-> FALSE, t |-> r.t, chain |-> m]
             ELSE IF r.ok THEN [ok |-> TRUE, t |-> r.t, chain |-> m]
             ELSE InsertChildrenN(r.t, qt, p, P, variant, n, c + 1, m)

\* divide's loop over qt.points, from index j on
ReinsertN(t, qt, P, variant, n, j, chain) ==
    IF j > Len(t[qt].points) \/ chain > MaxChain THEN [t |-> t, chain |-> chain]
    ELSE LET r == InsertChildrenN(t, qt, t[qt].points[j], P, variant, n, 1, chain)
         IN  ReinsertN(r.t, qt, P, variant, n, j + 1, r.chain)

divideN(t, qt, P, variant, n) ==
    IF t[qt].nodes[1] # Nil THEN [t |-> t, chain |-> n]
    ELSE LET b    == t[qt].boundary
             kids == [i \in 1 .. 4 |-> Append(qt, i - 1)]
             d    == IF variant THEN t[qt].depth ELSE ChildDepth(t[qt].depth)
             made == [k \in DOMAIN t \cup {kids[i] : i \in 1 .. 4} |->
                        IF k \in DOMAIN t THEN t[k]
                        ELSE New(ChildBox(b, k[Len(k)]), d, qt)]
             t1   == [made EXCEPT ![qt].nodes = kids]
             r    == ReinsertN(t1, qt, P, variant, n, 1, n)
         IN  [t |-> [r.t EXCEPT ![qt].points = <<>>], chain |-> r.chain]

InsertN(t, qt, p, P, variant, n) ==
    IF n > MaxChain THEN [ok |-> FALSE, t |-> t, chain |-> n]
    ELSE IF ~ContainsPoint(t[qt].boundary, P[p])
    THEN [ok |-> FALSE, t |-> t, chain |-> n]
    ELSE IF t[qt].nodes[1] = Nil
         THEN IF Len(t[qt].points) < Capacity
              THEN [ok |-> TRUE, t |-> [t EXCEPT ![qt].points = Append(@, p)],
                    chain |-> n]
              ELSE IF t[qt].depth < MaxDepth
                   THEN LET d == divideN(t, qt, P, variant, n)
                        IN  IF d.chain > MaxChain
                            THEN [ok |-> FALSE, t |-> d.t, chain |-> d.chain]
                            ELSE InsertChildrenN(d.t, qt, p, P, variant, n, 1, d.chain)
                   ELSE [ok |-> TRUE, t |-> [t EXCEPT ![qt].points = Append(@, p)],
                         chain |-> n]
         ELSE InsertChildrenN(t, qt, p, P, variant, n, 1, n)

(***************************************************************************)
(* C19.  Termination of Insert.  From a depth-0 root every Insert ends     *)
(* with a chain of calls no longer than MaxDepth + 1, also when more than  *)
(* Capacity points have the same coordinates: for src/quadtree.go on every *)
(* reachable tree, and for the variant of src/unnamed/part_000 on every    *)
(* reachable tree whose root was never split, which is a tree the variant  *)
(* builds as well, no child having been made.                              *)
(***************************************************************************)
C19_InsertChain ==
    AtRest =>
        \A p \in Ids : \A pos \in Pos :
            ~Stored(tree, p) =>
                /\ InsertN(tree, Root, p, Arg(p, pos), FALSE, 1).chain <= MaxChain
                /\ IsLeaf(tree, Root) =>
                      InsertN(tree, Root, p, Arg(p, pos), TRUE, 1).chain <= MaxChain

(***************************************************************************)
(* C16.  Nodes never un-split.  No step takes a node away or changes its   *)
(* box, depth or parent, and a node that has children keeps the same four: *)
(* the set of nodes only grows, whatever Insert, Remove and Update calls   *)
(* are made, also when every point below a node has been removed.          *)
(***************************************************************************)
C16_NeverUnsplit ==
    [][\A n \in DOMAIN tree :
          /\ n \in DOMAIN tree'
          /\ tree'[n].boundary = tree[n].boundary
          /\ tree'[n].depth = tree[n].depth
          /\ tree'[n].parent = tree[n].parent
          /\ ~IsLeaf(tree, n) => tree'[n].nodes = tree[n].nodes]_vars

\* a Remove has taken the last point out of a tree split at two levels
C16_Witness ==
    /\ last.op = "Remove" /\ last.ret
    /\ StoredIds(tree) = {}
    /\ \E n \in DOMAIN tree : tree[n].depth = 1 /\ ~IsLeaf(tree, n)

(***************************************************************************)
(* C17.  Remove acts on one point, by identity.  A Remove(p) that returns  *)
(* true takes one occurrence of p out of one list and changes nothing      *)
(* else: the nodes stay, every other list holds the same points in the     *)
(* same order, the list p was in holds the points it held (another point   *)
(* at the coordinates of p and the point swapped into the slot of p        *)
(* included), and no coordinates change.  A Remove(p) that returns false   *)
(* leaves the tree unchanged, and it returns false exactly when p is not   *)
(* stored.                                                                 *)
(***************************************************************************)
\* the number of slots of list s that hold q
CountIn(s, q) == Cardinality({ j \in 1 .. Len(s) : s[j] = q })

C17_RemoveOne ==
    [][last'.op = "Remove" =>
          /\ last'.ret = Stored(tree, last'.p)
          /\ ~last'.ret => (tree' = tree /\ pts' = pts)
          /\ last'.ret =>
                /\ DOMAIN tree' = DOMAIN tree
                /\ Occurrences(tree', last'.p) = Occurrences(tree, last'.p) - 1
                /\ \E h \in Holders(tree, last'.p) :
                      /\ Len(tree'[h].points) = Len(tree[h].points) - 1
                      /\ \A q \in Ids \ {last'.p} :
                            CountIn(tree'[h].points, q) = CountIn(tree[h].points, q)
                      /\ \A n \in DOMAIN tree \ {h} : tree'[n] = tree[n]
                      /\ tree'[h] = [tree[h] EXCEPT !.points = tree'[h].points]
                /\ \A q \in Ids \ {last'.p} : pts'[q] = pts[q]]_vars

\* a Remove has taken the point in the first slot out of a list of three
\* points that have the same coordinates: the two that stay are in the
\* order that the swap with the last element leaves
C17_Witness ==
    /\ last.op = "Remove" /\ last.ret
    /\ \E n \in DOMAIN tree :
          /\ Len(tree[n].points) = 2
          /\ tree[n].depth = MaxDepth
          /\ \A j \in 1 .. 2 :
                /\ pts[tree[n].points[j]].x = last.arg[1]
                /\ pts[tree[n].points[j]].y = last.arg[2]

(***************************************************************************)
(* C18.  A failed Update leaves the tree as it was: when Update(p, new)    *)
(* on the root returns false, the stored points, their coordinates and the *)
(* lists that hold them are as before the call, so a stored p is still     *)
(* stored, with its old coordinates.                                       *)
(***************************************************************************)
C18_FailedUpdateNoChange ==
    [][(last'.op = "Update" /\ ~last'.ret) =>
          /\ tree' = tree
          /\ pts' = pts
          /\ Stored(tree, last'.p) => Stored(tree', last'.p)]_vars

(***************************************************************************)
(* Intersect on its own.  The two boxes are drawn from BoxPool and kept in *)
(* last; TestIntersect calls a.Intersect(b) and keeps the result.          *)
(***************************************************************************)
\* largest coordinate of a centre and largest half-extent of the pool
MaxCoord == 1

BoxPool ==
    { NewAABB(NewPoint(x, y, Nil), NewPoint(hx, hy, Nil)) :
        x, y \in -MaxCoord .. MaxCoord, hx, hy \in 0 .. MaxCoord }

InitBoxes ==
    /\ tree = [n \in {Root} |-> New(RootBox, 0, Nil)]
    /\ pts = [p \in Ids |-> Zero(p)]
    /\ \E a, b \in BoxPool : last = [op |-> "Boxes", a |-> a, b |-> b, ret |-> FALSE]

TestIntersect ==
    /\ last.op = "Boxes"
    /\ last' = [last EXCEPT !.op = "Intersect", !.ret = Intersect(last.a, last.b)]
    /\ UNCHANGED <<tree, pts>>

SpecBoxes == InitBoxes /\ [][TestIntersect]_vars

(***************************************************************************)
(* C20.  Intersect agrees with ContainsPoint: for two boxes with           *)
(* non-negative half-extents, Intersect(a, b) is true exactly when some    *)
(* point is contained in both closed boxes, boxes that touch in an edge or *)
(* a corner included, and Intersect(a, b) = Intersect(b, a).  The edges of *)
(* the boxes of BoxPool lie on integers, so two of them that share a point *)
(* share one with integer coordinates.                                     *)
(***************************************************************************)
C20_IntersectAgrees ==
    last.op = "Intersect" =>
        /\ last.ret <=>
              \E x, y \in -2 * MaxCoord .. 2 * MaxCoord :
                  /\ ContainsPoint(last.a, NewPoint(x, y, Nil))
                  /\ ContainsPoint(last.b, NewPoint(x, y, Nil))
        /\ last.ret = Intersect(last.b, last.a)

\* Intersect has returned true for two boxes that share one corner only
C20_Witness ==
    /\ last.op = "Intersect" /\ last.ret
    /\ last.a.half.x > 0 /\ last.a.half.y > 0
    /\ last.b.half.x > 0 /\ last.b.half.y > 0
    /\ last.b.center.x - last.b.half.x = last.a.center.x + last.a.half.x
    /\ last.b.center.y - last.b.half.y = last.a.center.y + last.a.half.y

====
